---- MODULE Spec2Model ----
(***************************************************************************)
(* Account REST service (service/routes.py): the HTTP handlers for the     *)
(* Account resource, the record model they call (service/models.py) and    *)
(* the backing table, as a state machine with one action per route.        *)
(***************************************************************************)
EXTENDS Integers, Sequences, FiniteSets, TLC

\* Largest id the table's sequence hands out in the model.
MaxId == 2
\* Last calendar day the model's clock reaches (days are numbered from 1).
MaxDay == 2

VARIABLES db, today, last, ledger

vars == <<db, today, last, ledger>>

-----------------------------------------------------------------------------
(* HTTP status codes, service/common/status.py *)
status ==
    [HTTP_200_OK |-> 200, HTTP_201_CREATED |-> 201, HTTP_204_NO_CONTENT |-> 204,
     HTTP_400_BAD_REQUEST |-> 400, HTTP_404_NOT_FOUND |-> 404,
     HTTP_415_UNSUPPORTED_MEDIA_TYPE |-> 415,
     HTTP_500_INTERNAL_SERVER_ERROR |-> 500]

\* Python None / JSON null, as a value comparable with the strings of the model.
null == "<null>"

\* A missing Content-Type header: request.headers.get("Content-Type") is None.
NoHeader == "<absent>"

ContentTypes == {NoHeader, "application/json", "text/html"}

-----------------------------------------------------------------------------
(* Dates and their ISO rendering (date.isoformat / date.fromisoformat) *)

IsoDates == <<"2024-01-01", "2024-01-02", "2024-01-03", "2024-01-04">>

IsoFormat(d) == IF d \in DOMAIN IsoDates THEN IsoDates[d] ELSE null

FromIsoFormat(s) == CHOOSE d \in DOMAIN IsoDates : IsoDates[d] = s

-----------------------------------------------------------------------------
(* Request bodies: JSON objects, functions from a set of keys to values *)

RequiredFields == <<"name", "email", "address", "phone_number">>

FieldVals ==
    [name         |-> <<"Jane", "John">>,
     email        |-> <<"j@x.com", "k@x.com">>,
     address      |-> <<"1 Main St", "2 Side St">>,
     phone_number |-> <<"555-1111", "555-2222">>]

\* ids a client may put in a body
BodyIds == {1}

Range(s) == {s[i] : i \in DOMAIN s}

\* what is wrong with a body: nothing, a required field missing, or one null
Defects ==
    {<<"none", "none">>} \cup ({"missing"} \X Range(RequiredFields))
    \cup {<<"null", "email">>}

\* day 0: no date_joined key; id 0: no id key
Payload(base, defect, dj, bid) ==
    LET keys == (Range(RequiredFields) \ (IF defect[1] = "missing" THEN {defect[2]} ELSE {}))
                \cup (IF dj = 0 THEN {} ELSE {"date_joined"})
                \cup (IF bid = 0 THEN {} ELSE {"id"})
    IN [k \in keys |->
          IF k = "id" THEN bid
          ELSE IF k = "date_joined" THEN IsoFormat(dj)
          ELSE IF defect = <<"null", k>> THEN null
          ELSE FieldVals[k][base]]

\* bodies of requests declared as JSON: complete ones, with or without a
\* date_joined or an id, and ones with a required field missing or null
ValidBodies ==
    {Payload(base, <<"none", "none">>, dj, 0) : base \in 1..2, dj \in {0, 1, MaxDay}}
    \cup {Payload(base, <<"none", "none">>, 0, bid) : base \in 1..2, bid \in BodyIds}

DefectiveBodies == {Payload(2, defect, 0, 0) : defect \in Defects \ {<<"none", "none">>}}

\* bodies of requests not declared as JSON: a complete and a defective one
OtherBodies ==
    {Payload(1, <<"none", "none">>, 0, 0), Payload(2, <<"missing", "name">>, 0, 0)}

Bodies(content_type) ==
    IF content_type = "application/json" THEN ValidBodies \cup DefectiveBodies
    ELSE OtherBodies

EmptyBody == [k \in {} |-> null]

-----------------------------------------------------------------------------
(* The record model, service/models.py *)

\* Account(): a fresh instance, every attribute None (0 for the integer ones)
Account ==
    [id |-> 0, name |-> null, email |-> null, address |-> null,
     phone_number |-> null, date_joined |-> 0]

FieldOk(data, f) == f \in DOMAIN data /\ data[f] # null

\* index of the first required field that is missing or not a string, 5 if none
FirstBad(data) ==
    IF \E k \in 1..4 : ~FieldOk(data, RequiredFields[k])
    THEN CHOOSE k \in 1..4 :
            /\ ~FieldOk(data, RequiredFields[k])
            /\ \A j \in 1..(k - 1) : FieldOk(data, RequiredFields[j])
    ELSE 5

\* Account.deserialize(data): assigns the attributes in order and raises
\* DataValidationError at the first bad one (ok = FALSE); the instance keeps
\* the attributes assigned before the failure.  The id key is never read.
deserialize(account, data, day) ==
    LET k == FirstBad(data)
        set(i) == IF i < k THEN data[RequiredFields[i]] ELSE account[RequiredFields[i]]
    IN [ok |-> k = 5,
        account |->
          [id |-> account.id,
           name |-> set(1), email |-> set(2), address |-> set(3),
           phone_number |-> set(4),
           date_joined |->
              IF k < 5 THEN account.date_joined
              ELSE IF "date_joined" \in DOMAIN data
                   THEN FromIsoFormat(data["date_joined"])
                   ELSE day]]

\* Account.serialize()
serialize(account) ==
    [id |-> account.id, name |-> account.name, email |-> account.email,
     address |-> account.address, phone_number |-> account.phone_number,
     date_joined |-> IsoFormat(account.date_joined)]

\* Account.all(): the rows in insertion order
all(d) == d.accounts

\* Account.find(id): <<row>> or <<>> (None)
find(d, id) == SelectSeq(d.accounts, LAMBDA a : a.id = id)

\* account.create(): insert one row, id from the table's sequence
create(d, account) ==
    LET row == [account EXCEPT !.id = d.next_id]
    IN [db |-> [accounts |-> Append(d.accounts, row), next_id |-> d.next_id + 1],
        account |-> row]

\* account.update(): write the instance's attributes to the row with its id
update(d, account) ==
    [d EXCEPT !.accounts =
        [i \in DOMAIN d.accounts |->
            IF d.accounts[i].id = account.id THEN account ELSE d.accounts[i]]]

\* account.delete(): remove the row with the instance's id
delete(d, account) ==
    [d EXCEPT !.accounts = SelectSeq(d.accounts, LAMBDA a : a.id # account.id)]

-----------------------------------------------------------------------------
(* Flask: routing table, url_for, jsonify, make_response, abort, get_json *)

\* the @app.route rules, by view function
Rules ==
    [health |-> "/health", index |-> "/",
     create_accounts |-> "/accounts", get_accounts |-> "/accounts",
     read_account |-> "/accounts/<id>", update_account |-> "/accounts/<id>",
     delete_account |-> "/accounts/<id>"]

RuleArgs(rule) == IF rule = "/accounts/<id>" THEN {"id"} ELSE {}

\* url_for(endpoint, key=value): a value the rule has a variable for fills the
\* path, any other value is appended as a query argument
url_for(endpoint, key, value) ==
    IF key \in RuleArgs(Rules[endpoint])
    THEN [rule |-> Rules[endpoint], args |-> <<value>>, query |-> <<>>]
    ELSE [rule |-> Rules[endpoint], args |-> <<>>, query |-> <<value>>]

NoHeaders == <<>>

jsonify_dict(message) == [kind |-> "object", items |-> <<message>>]

jsonify_list(message) == [kind |-> "array", items |-> message]

make_response(body, code, headers) ==
    [status |-> code, body |-> body, location |-> headers]

\* abort(code) and raised exceptions: the error handlers answer with a message
abort(code) ==
    make_response([kind |-> "error", items |-> <<>>], code, NoHeaders)

\* request.get_json(): the parsed body when the request is declared as JSON
get_json(req) ==
    [ok |-> req.content_type = "application/json", json |-> req.body]

\* what get_json does with a request not declared as JSON depends on the
\* Flask release: 415, 400, or None (which deserialize rejects: 400)
JsonErrors(content_type) ==
    IF content_type = "application/json" THEN {status.HTTP_400_BAD_REQUEST}
    ELSE {status.HTTP_400_BAD_REQUEST, status.HTTP_415_UNSUPPORTED_MEDIA_TYPE}

Request(method, url, content_type, body) ==
    [method |-> method, url |-> url, content_type |-> content_type, body |-> body]

-----------------------------------------------------------------------------
(* service/routes.py *)

\* the guard with the comparison left out: any declared content type passes
check_content_type_any(req, media_type) ==
    req.content_type # NoHeader

\* TRUE when the guard returns, FALSE when it aborts with 415
check_content_type(req, media_type) ==
    req.content_type # NoHeader /\ req.content_type = media_type

health_view ==
    make_response(jsonify_dict([status |-> "OK"]), status.HTTP_200_OK, NoHeaders)

index_view ==
    make_response(jsonify_dict([name |-> "Account REST API Service", version |-> "1.0"]),
                  status.HTTP_200_OK, NoHeaders)

\* create() called before the outcome of deserialize is looked at
create_accounts_eager(d, req, day) ==
    IF ~check_content_type(req, "application/json")
    THEN [db |-> d, resp |-> abort(status.HTTP_415_UNSUPPORTED_MEDIA_TYPE)]
    ELSE LET r == deserialize(Account, get_json(req).json, day)
             c == create(d, r.account)
             message == serialize(c.account)
             location_url == url_for("get_accounts", "account_id", c.account.id)
         IN IF ~r.ok
            THEN [db |-> c.db, resp |-> abort(status.HTTP_400_BAD_REQUEST)]
            ELSE [db |-> c.db,
                  resp |-> make_response(jsonify_dict(message),
                                         status.HTTP_201_CREATED, <<location_url>>)]

create_accounts(d, req, day) ==
    IF ~check_content_type(req, "application/json")
    THEN [db |-> d, resp |-> abort(status.HTTP_415_UNSUPPORTED_MEDIA_TYPE)]
    ELSE LET r == deserialize(Account, get_json(req).json, day)
         IN IF ~r.ok
            THEN [db |-> d, resp |-> abort(status.HTTP_400_BAD_REQUEST)]
            ELSE LET c == create(d, r.account)
                     message == serialize(c.account)
                     location_url == url_for("get_accounts", "account_id", c.account.id)
                 IN [db |-> c.db,
                     resp |-> make_response(jsonify_dict(message),
                                            status.HTTP_201_CREATED, <<location_url>>)]

\* the listing loop starting one row late
get_accounts_skip(d) ==
    LET accounts == Tail(all(d))
        message == [i \in DOMAIN accounts |-> serialize(accounts[i])]
    IN make_response(jsonify_list(IF Len(all(d)) = 0 THEN <<>> ELSE message),
                     status.HTTP_200_OK, NoHeaders)

get_accounts(d) ==
    LET accounts == all(d)
        message == [i \in DOMAIN accounts |-> serialize(accounts[i])]
    IN make_response(jsonify_list(message), status.HTTP_200_OK, NoHeaders)

read_account(d, id) ==
    LET account == find(d, id)
    IN IF Len(account) = 0
       THEN make_response(jsonify_list(<<>>), status.HTTP_404_NOT_FOUND, NoHeaders)
       ELSE make_response(jsonify_dict(serialize(account[1])), status.HTTP_200_OK, NoHeaders)

\* PUT of an unknown id served from a fresh instance instead of 404
update_account_fresh(d, id, req, day, jsonErr) ==
    LET found_account == IF Len(find(d, id)) = 0 THEN <<Account>> ELSE find(d, id)
    IN IF ~get_json(req).ok
       THEN [db |-> d, resp |-> abort(jsonErr)]
       ELSE LET r == deserialize(found_account[1], get_json(req).json, day)
            IN IF ~r.ok
               THEN [db |-> d, resp |-> abort(status.HTTP_400_BAD_REQUEST)]
               ELSE [db |-> update(d, r.account),
                     resp |-> make_response(jsonify_dict(serialize(r.account)),
                                            status.HTTP_200_OK, NoHeaders)]

\* the id of the body copied onto the instance along with the other attributes
update_account_bodyid(d, id, req, day, jsonErr) ==
    LET found_account == find(d, id)
    IN IF Len(found_account) = 0
       THEN [db |-> d,
             resp |-> make_response(jsonify_list(<<>>), status.HTTP_404_NOT_FOUND, NoHeaders)]
       ELSE IF ~get_json(req).ok
       THEN [db |-> d, resp |-> abort(jsonErr)]
       ELSE LET r == deserialize(found_account[1], get_json(req).json, day)
                account == IF "id" \in DOMAIN req.body
                           THEN [r.account EXCEPT !.id = req.body["id"]]
                           ELSE r.account
            IN IF ~r.ok
               THEN [db |-> d, resp |-> abort(status.HTTP_400_BAD_REQUEST)]
               ELSE [db |-> update(d, account),
                     resp |-> make_response(jsonify_dict(serialize(account)),
                                            status.HTTP_200_OK, NoHeaders)]

\* the call of update() left out: the instance is answered, the row is not written
update_account_unsaved(d, id, req, day, jsonErr) ==
    LET found_account == find(d, id)
    IN IF Len(found_account) = 0
       THEN [db |-> d,
             resp |-> make_response(jsonify_list(<<>>), status.HTTP_404_NOT_FOUND, NoHeaders)]
       ELSE IF ~get_json(req).ok
       THEN [db |-> d, resp |-> abort(jsonErr)]
       ELSE LET r == deserialize(found_account[1], get_json(req).json, day)
            IN IF ~r.ok
               THEN [db |-> d, resp |-> abort(status.HTTP_400_BAD_REQUEST)]
               ELSE [db |-> d,
                     resp |-> make_response(jsonify_dict(serialize(r.account)),
                                            status.HTTP_200_OK, NoHeaders)]

\* update() called although deserialize failed: the half-assigned instance is written
update_account_partial(d, id, req, day, jsonErr) ==
    LET found_account == find(d, id)
    IN IF Len(found_account) = 0
       THEN [db |-> d,
             resp |-> make_response(jsonify_list(<<>>), status.HTTP_404_NOT_FOUND, NoHeaders)]
       ELSE IF ~get_json(req).ok
       THEN [db |-> d, resp |-> abort(jsonErr)]
       ELSE LET r == deserialize(found_account[1], get_json(req).json, day)
            IN IF ~r.ok
               THEN [db |-> update(d, r.account),
                     resp |-> abort(status.HTTP_400_BAD_REQUEST)]
               ELSE [db |-> update(d, r.account),
                     resp |-> make_response(jsonify_dict(serialize(r.account)),
                                            status.HTTP_200_OK, NoHeaders)]

update_account(d, id, req, day, jsonErr) ==
    LET found_account == find(d, id)
    IN IF Len(found_account) = 0
       THEN [db |-> d,
             resp |-> make_response(jsonify_list(<<>>), status.HTTP_404_NOT_FOUND, NoHeaders)]
       ELSE IF ~get_json(req).ok
       THEN [db |-> d, resp |-> abort(jsonErr)]
       ELSE LET r == deserialize(found_account[1], get_json(req).json, day)
            IN IF ~r.ok
               THEN [db |-> d, resp |-> abort(status.HTTP_400_BAD_REQUEST)]
               ELSE [db |-> update(d, r.account),
                     resp |-> make_response(jsonify_dict(serialize(r.account)),
                                            status.HTTP_200_OK, NoHeaders)]

\* 204 answered without the row being removed
delete_account_keep(d, id) ==
    LET found_account == find(d, id)
    IN IF Len(found_account) # 0
       THEN [db |-> d,
             resp |-> make_response(jsonify_list(<<>>), status.HTTP_204_NO_CONTENT, NoHeaders)]
       ELSE [db |-> d, resp |-> abort(status.HTTP_500_INTERNAL_SERVER_ERROR)]

\* the view returns a response only when the account is found; returning None
\* makes Flask fail the request ("The view function did not return a valid
\* response"): 500
delete_account(d, id) ==
    LET found_account == find(d, id)
    IN IF Len(found_account) # 0
       THEN [db |-> delete(d, found_account[1]),
             resp |-> make_response(jsonify_list(<<>>), status.HTTP_204_NO_CONTENT, NoHeaders)]
       ELSE [db |-> d, resp |-> abort(status.HTTP_500_INTERNAL_SERVER_ERROR)]

\* the view a GET of url is routed to; query arguments play no part in routing
GET(d, url) ==
    IF url.rule = Rules["get_accounts"] THEN get_accounts(d)
    ELSE IF url.rule = Rules["read_account"] THEN read_account(d, url.args[1])
    ELSE IF url.rule = Rules["health"] THEN health_view
    ELSE index_view

-----------------------------------------------------------------------------
(* The client of tests/test_routes.py: the requests it sends and the record *)
(* it keeps of what it wrote                                                *)

PathIds == 1..(MaxId + 1)

Field(data, f) == IF f \in DOMAIN data THEN data[f] ELSE null

\* the attributes a client expects an account to show after writing body on day
Written(body, day) ==
    [name |-> Field(body, "name"), email |-> Field(body, "email"),
     address |-> Field(body, "address"), phone_number |-> Field(body, "phone_number"),
     date_joined |-> IF "date_joined" \in DOMAIN body THEN body["date_joined"]
                     ELSE IsoFormat(day)]

Without(f, x) == [y \in DOMAIN f \ {x} |-> f[y]]

With(f, x, v) == [y \in DOMAIN f \cup {x} |-> IF y = x THEN v ELSE f[y]]

\* the client's ledger after an exchange: id -> attributes last written
Record(led, req, resp, day) ==
    IF req.method = "POST" /\ resp.status = status.HTTP_201_CREATED
    THEN With(led, resp.body.items[1].id, Written(req.body, day))
    ELSE IF req.method = "PUT" /\ resp.status = status.HTTP_200_OK
    THEN With(led, req.url.args[1], Written(req.body, day))
    ELSE IF req.method = "DELETE" /\ resp.status = status.HTTP_204_NO_CONTENT
    THEN Without(led, req.url.args[1])
    ELSE led

Exchange(req, resp, out) ==
    /\ db' = out
    /\ last' = [req |-> req, resp |-> resp, pre |-> db]
    /\ ledger' = Record(ledger, req, resp, today)
    /\ UNCHANGED today

-----------------------------------------------------------------------------
Init ==
    /\ db = [accounts |-> <<>>, next_id |-> 1]
    /\ today = 1
    /\ last = [req |-> Request("GET", url_for("index", "none", 0), NoHeader, EmptyBody),
               resp |-> index_view, pre |-> db]
    /\ ledger = [i \in {} |-> Written(EmptyBody, 1)]

Health ==
    LET req == Request("GET", [rule |-> Rules["health"], args |-> <<>>, query |-> <<>>],
                       NoHeader, EmptyBody)
    IN Exchange(req, health_view, db)

Index ==
    LET req == Request("GET", [rule |-> Rules["index"], args |-> <<>>, query |-> <<>>],
                       NoHeader, EmptyBody)
    IN Exchange(req, index_view, db)

CreateAccounts ==
    \E ct \in ContentTypes : \E body \in Bodies(ct) :
        LET req == Request("POST", [rule |-> Rules["create_accounts"], args |-> <<>>,
                                    query |-> <<>>], ct, body)
            r == create_accounts(db, req, today)
        IN /\ r.db.next_id <= MaxId + 1
           /\ Exchange(req, r.resp, r.db)

GetAccounts ==
    \E q \in {<<>>} \cup {<<i>> : i \in 1..MaxId} :
        LET req == Request("GET", [rule |-> Rules["get_accounts"], args |-> <<>>,
                                   query |-> q], NoHeader, EmptyBody)
        IN Exchange(req, get_accounts(db), db)

ReadAccount ==
    \E id \in PathIds :
        LET req == Request("GET", url_for("read_account", "id", id), NoHeader, EmptyBody)
        IN Exchange(req, read_account(db, id), db)

UpdateAccount ==
    \E id \in PathIds, ct \in ContentTypes :
      \E body \in Bodies(ct), jsonErr \in JsonErrors(ct) :
        LET req == Request("PUT", url_for("update_account", "id", id), ct, body)
            r == update_account(db, id, req, today, jsonErr)
        IN Exchange(req, r.resp, r.db)

DeleteAccount ==
    \E id \in PathIds :
        LET req == Request("DELETE", url_for("delete_account", "id", id), NoHeader, EmptyBody)
            r == delete_account(db, id)
        IN Exchange(req, r.resp, r.db)

\* midnight
Tick ==
    /\ today < MaxDay
    /\ today' = today + 1
    /\ UNCHANGED <<db, last, ledger>>

Next ==
    \/ Health
    \/ Index
    \/ CreateAccounts
    \/ GetAccounts
    \/ ReadAccount
    \/ UpdateAccount
    \/ DeleteAccount
    \/ Tick

Spec == Init /\ [][Next]_vars

-----------------------------------------------------------------------------
(* Properties.  last is the latest exchange: its request, its response and  *)
(* the database as it was when the request arrived.                         *)

IsRequest(method, rule) == last.req.method = method /\ last.req.url.rule = rule

\* the id in the path of the latest request
PathId == last.req.url.args[1]

Exists(d, id) == Len(find(d, id)) # 0

Ids(d) == [i \in DOMAIN d.accounts |-> d.accounts[i].id]

\* the attributes of a serialized account other than its id
Attributes(item) ==
    [name |-> item.name, email |-> item.email, address |-> item.address,
     phone_number |-> item.phone_number, date_joined |-> item.date_joined]

\* every row of d1 but the one with this id is in d2, unchanged
OthersKept(d1, d2, id) ==
    \A i \in DOMAIN d1.accounts :
        d1.accounts[i].id # id => find(d2, d1.accounts[i].id) = <<d1.accounts[i]>>

\* the latest request carried a JSON body that deserialize accepts
ValidBody == get_json(last.req).ok /\ FirstBad(last.req.body) = 5

\* C1: DELETE /accounts/{id} always answers 204 with an empty body, whether or
\* not the account exists (so also for a second DELETE of the same id), and a
\* DELETE of an id that is not there leaves the store unchanged.
C1_DeleteAlways204 ==
    IsRequest("DELETE", Rules["delete_account"]) =>
        /\ last.resp.status = status.HTTP_204_NO_CONTENT
        /\ last.resp.body.items = <<>>
        /\ (~Exists(last.pre, PathId) => db = last.pre)

\* C2: after a 201 from POST /accounts the Location header is the read URL of
\* the new account, and a GET of that Location answers 200 with the body of
\* the 201.
C2_LocationIsReadUrl ==
    (IsRequest("POST", Rules["create_accounts"])
        /\ last.resp.status = status.HTTP_201_CREATED) =>
        /\ last.resp.location
             = <<url_for("read_account", "id", last.resp.body.items[1].id)>>
        /\ GET(db, last.resp.location[1]).status = status.HTTP_200_OK
        /\ GET(db, last.resp.location[1]).body = last.resp.body

\* C3: a POST /accounts whose Content-Type is absent or is not application/json
\* is answered 415, whatever its body, and the store is as it was.
C3_UnsupportedMediaType ==
    (IsRequest("POST", Rules["create_accounts"])
        /\ last.req.content_type # "application/json") =>
        /\ last.resp.status = status.HTTP_415_UNSUPPORTED_MEDIA_TYPE
        /\ db = last.pre

C3_Witness ==
    /\ IsRequest("POST", Rules["create_accounts"])
    /\ last.req.content_type = "text/html"
    /\ FirstBad(last.req.body) = 5
    /\ last.resp.status = status.HTTP_415_UNSUPPORTED_MEDIA_TYPE
    /\ Len(db.accounts) = 1

\* C4: a JSON POST /accounts whose body lacks a required field is answered 400
\* and nothing is created: no row is inserted and no id is drawn.
C4_BadRequestCreatesNothing ==
    (IsRequest("POST", Rules["create_accounts"])
        /\ last.req.content_type = "application/json"
        /\ \E k \in 1..4 : RequiredFields[k] \notin DOMAIN last.req.body) =>
        /\ last.resp.status = status.HTTP_400_BAD_REQUEST
        /\ db.accounts = last.pre.accounts
        /\ db.next_id = last.pre.next_id

C4_Witness ==
    /\ IsRequest("POST", Rules["create_accounts"])
    /\ last.req.content_type = "application/json"
    /\ "phone_number" \notin DOMAIN last.req.body
    /\ last.resp.status = status.HTTP_400_BAD_REQUEST
    /\ Len(db.accounts) = 1

\* C5: GET and PUT of an id that names no persisted account (never created, or
\* deleted) are answered 404 with an empty JSON array, and the PUT leaves the
\* store as it was.
C5_NotFound ==
    ((IsRequest("GET", Rules["read_account"]) \/ IsRequest("PUT", Rules["update_account"]))
        /\ ~Exists(last.pre, PathId)) =>
        /\ last.resp.status = status.HTTP_404_NOT_FOUND
        /\ last.resp.body = jsonify_list(<<>>)
        /\ db = last.pre

\* a valid PUT of a deleted id while another account exists
C5_Witness ==
    /\ IsRequest("PUT", Rules["update_account"])
    /\ ValidBody
    /\ PathId < last.pre.next_id
    /\ ~Exists(last.pre, PathId)
    /\ Len(last.pre.accounts) = 1
    /\ last.resp.status = status.HTTP_404_NOT_FOUND

\* C6: GET /accounts answers 200 with exactly one entry for each account
\* created and not deleted since, under the id its 201 carried and with the
\* attributes last written to it; with no accounts it answers an empty array.
C6_ListMatchesWrites ==
    IsRequest("GET", Rules["get_accounts"]) =>
        /\ last.resp.status = status.HTTP_200_OK
        /\ last.resp.body.kind = "array"
        /\ Len(last.resp.body.items) = Cardinality(DOMAIN ledger)
        /\ \A id \in DOMAIN ledger :
              \E i \in DOMAIN last.resp.body.items :
                  /\ last.resp.body.items[i].id = id
                  /\ Attributes(last.resp.body.items[i]) = ledger[id]

\* a listing of two accounts, the first of them updated since its creation
C6_Witness ==
    /\ IsRequest("GET", Rules["get_accounts"])
    /\ Len(last.resp.body.items) = 2
    /\ last.resp.body.items[1].name = "John"
    /\ last.resp.body.items[1].date_joined = IsoFormat(2)
    /\ last.resp.body.items[2].name = "Jane"

\* C7: ids are drawn by the store at creation and never change: persisted
\* accounts have pairwise distinct ids, a 201 carries the next id of the
\* store's sequence whatever id the body held, and a 200 from PUT carries the
\* path id, which is also what a read then shows, no row having changed id.
C7_IdAssignedOnce ==
    /\ \A i, j \in DOMAIN db.accounts : i # j => db.accounts[i].id # db.accounts[j].id
    /\ (IsRequest("POST", Rules["create_accounts"])
            /\ last.resp.status = status.HTTP_201_CREATED) =>
          /\ last.resp.body.items[1].id = last.pre.next_id
          /\ ~Exists(last.pre, last.resp.body.items[1].id)
          /\ Ids(db) = Append(Ids(last.pre), last.pre.next_id)
    /\ (IsRequest("PUT", Rules["update_account"])
            /\ last.resp.status = status.HTTP_200_OK) =>
          /\ last.resp.body.items[1].id = PathId
          /\ Ids(db) = Ids(last.pre)
          /\ read_account(db, PathId).body.items[1].id = PathId

\* a PUT of account 2 whose body says id 1, answered 200
C7_Witness ==
    /\ IsRequest("PUT", Rules["update_account"])
    /\ last.resp.status = status.HTTP_200_OK
    /\ "id" \in DOMAIN last.req.body
    /\ last.req.body["id"] # PathId
    /\ Exists(db, last.req.body["id"])

C9_DeleteRemovesOne ==
    (IsRequest("DELETE", Rules["delete_account"]) /\ Exists(last.pre, PathId)) =>
        /\ last.resp.status = status.HTTP_204_NO_CONTENT
        /\ read_account(db, PathId).status = status.HTTP_404_NOT_FOUND
        /\ Len(db.accounts) = Len(last.pre.accounts) - 1
        /\ OthersKept(last.pre, db, PathId)

C9_Witness ==
    /\ IsRequest("DELETE", Rules["delete_account"])
    /\ Exists(last.pre, PathId)
    /\ Len(last.pre.accounts) = 2
    /\ Len(db.accounts) = 1

\* C10: a PUT of an existing account whose JSON body fails deserialization is
\* refused and writes nothing: the row keeps every attribute, also those the
\* body gave validly before the failing one, and a read shows what it showed
\* before the request.
C10_NoPartialUpdate ==
    (IsRequest("PUT", Rules["update_account"])
        /\ Exists(last.pre, PathId)
        /\ get_json(last.req).ok /\ FirstBad(last.req.body) < 5) =>
        /\ last.resp.status = status.HTTP_400_BAD_REQUEST
        /\ db = last.pre
        /\ read_account(db, PathId) = read_account(last.pre, PathId)

\* the body fails at its third field after a name that differs from the stored one
C10_Witness ==
    /\ IsRequest("PUT", Rules["update_account"])
    /\ Exists(last.pre, PathId)
    /\ get_json(last.req).ok
    /\ FirstBad(last.req.body) = 3
    /\ last.req.body["name"] # find(last.pre, PathId)[1].name
    /\ last.resp.status = status.HTTP_400_BAD_REQUEST

====
